---- MODULE Spec2Model ----
(***************************************************************************)
(* Voice chess: the game state and command engine of main.py.              *)
(*                                                                         *)
(* State: the python-chess board (placement, side to move, rights, clocks, *)
(* move stack and the stack of saved states that pop() restores), the      *)
(* displayed notation list move_history, redo_stack, the engine handle,    *)
(* the transcript file game_log.pgn and the position of the main loop.     *)
(*                                                                         *)
(* Strings are sequences of one-character strings, so that parse_command,  *)
(* SAN generation and SAN parsing are computed character by character.     *)
(*                                                                         *)
(* Board fragment: move generation covers pawns and knights (pushes,       *)
(* double pushes, captures, en passant).  Bishops, rooks, queens and kings *)
(* stand on their home squares and are moved by no input of the model;     *)
(* from the home squares no slider bears on a king, so legality and the    *)
(* check suffix depend on knight and pawn attacks only.  Promotion and     *)
(* castling are beyond the plies the model plays.                          *)
(***************************************************************************)
EXTENDS Integers, Sequences, FiniteSets, TLC

VARIABLES
    board,          \* chess.Board()
    move_history,   \* the notation list the score sheet shows
    redo_stack,     \* the undone moves
    engine,         \* None or the stockfish process
    file,           \* game_log.pgn
    pc,             \* where main() is
    running,        \* main's loop flag
    quit_calls,     \* how often engine.quit() was called
    heard,          \* the text recognize_google returned for the last command
    last,           \* history: the last command and the state it started from
    chain           \* history: the current run of undos followed by redos

vars == <<board, move_history, redo_stack, engine, file, pc, running,
          quit_calls, heard, last, chain>>

\* Longest game (in plies) the inputs play; commands that could push a move
\* are issued only below it.
MaxPly == 2

\* Longest token parse_command is tried on apart from the recognized texts.
MaxTokenLen == 3

-----------------------------------------------------------------------------
(* Characters and strings                                                  *)

FILE_NAMES == <<"a", "b", "c", "d", "e", "f", "g", "h">>
RANK_NAMES == <<"1", "2", "3", "4", "5", "6", "7", "8">>

FileChars == {FILE_NAMES[i] : i \in 1..8}
RankChars == {RANK_NAMES[i] : i \in 1..8}
PieceChars == {"N", "B", "K", "R", "Q"}

\* str.upper() on one character
UpperTable ==
    [a |-> "A", b |-> "B", c |-> "C", d |-> "D", e |-> "E", f |-> "F",
     g |-> "G", h |-> "H", k |-> "K", l |-> "L", m |-> "M", n |-> "N",
     o |-> "O", p |-> "P", q |-> "Q", r |-> "R", s |-> "S", t |-> "T",
     u |-> "U", v |-> "V", x |-> "X", y |-> "Y"]

Upper(c) == IF c \in DOMAIN UpperTable THEN UpperTable[c] ELSE c

\* str.lower() on one character and on a string
LowerOf ==
    [c \in {UpperTable[k] : k \in DOMAIN UpperTable} |->
        CHOOSE k \in DOMAIN UpperTable : UpperTable[k] = c]

Lower(c) == IF c \in DOMAIN LowerOf THEN LowerOf[c] ELSE c

StrLower(s) == [i \in 1..Len(s) |-> Lower(s[i])]

\* str.replace(" ", "")
RECURSIVE RemoveSpaces(_)
RemoveSpaces(s) ==
    IF s = <<>> THEN <<>>
    ELSE IF Head(s) = " " THEN RemoveSpaces(Tail(s))
         ELSE <<Head(s)>> \o RemoveSpaces(Tail(s))

IndexOf(seq, c) == CHOOSE i \in 1..Len(seq) : seq[i] = c

-----------------------------------------------------------------------------
(* Squares, pieces, moves (python-chess numbering: a1 = 0 .. h8 = 63)      *)

SQUARES == 0..63

square_file(sq) == sq % 8
square_rank(sq) == sq \div 8
square(f, r) == r * 8 + f

SQUARE_NAME(sq) == <<FILE_NAMES[square_file(sq) + 1], RANK_NAMES[square_rank(sq) + 1]>>

WhitePieces == {"P", "N", "B", "R", "Q", "K"}
BlackPieces == {"p", "n", "b", "r", "q", "k"}
Empty == "."

\* chess.WHITE = True, chess.BLACK = False
PiecesOf(colour) == IF colour THEN WhitePieces ELSE BlackPieces

\* piece type as the upper-case letter
piece_type(p) == Upper(p)

\* str.lower() on a piece letter
LowerTable == [P |-> "p", N |-> "n", B |-> "b", R |-> "r", Q |-> "q", K |-> "k"]

\* the symbol of a piece type for a colour
piece_symbol(type, colour) == IF colour THEN type ELSE LowerTable[type]

Move(f, t) == [from |-> f, to |-> t]

\* chess.Move.null(): falsy, uci "0000"
NullMove == Move(0, 0)

\* Python None where a move is expected
NoneMove == Move(-1, -1)

\* Move.__bool__
MoveBool(m) == m # NoneMove /\ (m.from # 0 \/ m.to # 0)

BackRank == <<"R", "N", "B", "Q", "K", "B", "N", "R">>

StartPieces ==
    [sq \in SQUARES |->
        CASE square_rank(sq) = 0 -> BackRank[square_file(sq) + 1]
          [] square_rank(sq) = 1 -> "P"
          [] square_rank(sq) = 6 -> "p"
          [] square_rank(sq) = 7 -> piece_symbol(BackRank[square_file(sq) + 1], FALSE)
          [] OTHER -> Empty]

\* chess.Board(): the standard starting position, empty move stack
NoSquare == 0 - 1

NewBoard ==
    [pieces |-> StartPieces, turn |-> TRUE, castling |-> {0, 7, 56, 63},
     ep |-> NoSquare, halfmove |-> 0, fullmove |-> 1,
     move_stack |-> <<>>, stack |-> <<>>]

\* Board._board_state(): what pop() restores
BoardState(b) ==
    [pieces |-> b.pieces, turn |-> b.turn, castling |-> b.castling,
     ep |-> b.ep, halfmove |-> b.halfmove, fullmove |-> b.fullmove]

-----------------------------------------------------------------------------
(* Board: attacks, move generation, push and pop                           *)

Abs(x) == IF x < 0 THEN 0 - x ELSE x

KnightJump(s, t) ==
    LET df == Abs(square_file(s) - square_file(t))
        dr == Abs(square_rank(s) - square_rank(t))
    IN (df = 1 /\ dr = 2) \/ (df = 2 /\ dr = 1)

\* a pawn of `colour` on s attacks t
PawnAttacks(colour, s, t) ==
    /\ Abs(square_file(s) - square_file(t)) = 1
    /\ square_rank(t) = square_rank(s) + (IF colour THEN 1 ELSE 0 - 1)

\* BB_KNIGHT_ATTACKS and BB_PAWN_ATTACKS: the squares attacked from a square
BB_KNIGHT_ATTACKS == [s \in SQUARES |-> {t \in SQUARES : KnightJump(s, t)}]
BB_PAWN_ATTACKS ==
    [colour \in BOOLEAN |->
        [s \in SQUARES |-> {t \in SQUARES : PawnAttacks(colour, s, t)}]]

\* Board.is_attacked_by(colour, sq), over the attackers the fragment moves
is_attacked_by(pieces, colour, sq) ==
    \/ \E s \in BB_KNIGHT_ATTACKS[sq] : pieces[s] = piece_symbol("N", colour)
    \/ \E s \in BB_PAWN_ATTACKS[~colour][sq] : pieces[s] = piece_symbol("P", colour)

\* Board.king(colour)
king(pieces, colour) ==
    CHOOSE sq \in SQUARES : pieces[sq] = piece_symbol("K", colour)

\* Board.is_en_passant(move)
is_en_passant(b, m) ==
    /\ b.ep = m.to
    /\ piece_type(b.pieces[m.from]) = "P"
    /\ Abs(m.to - m.from) \in {7, 9}
    /\ b.pieces[m.to] = Empty

\* Board.is_capture(move): the move touches a piece of the other side
is_capture(b, m) ==
    \/ b.pieces[m.from] \in PiecesOf(~b.turn)
    \/ b.pieces[m.to] \in PiecesOf(~b.turn)
    \/ is_en_passant(b, m)

\* Board.is_zeroing(move)
is_zeroing(b, m) ==
    \/ piece_type(b.pieces[m.from]) = "P"
    \/ piece_type(b.pieces[m.to]) = "P"
    \/ b.pieces[m.from] \in PiecesOf(~b.turn)
    \/ b.pieces[m.to] \in PiecesOf(~b.turn)

\* the placement Board.push(move) leaves: the piece leaves its square, a pawn
\* taken en passant is removed, the piece is set down in the mover's colour
PiecesAfter(b, m) ==
    LET type == piece_type(b.pieces[m.from])
        down == IF b.turn THEN 0 - 8 ELSE 8
        lifted == [b.pieces EXCEPT ![m.from] = Empty]
        taken == IF is_en_passant(b, m)
                 THEN [lifted EXCEPT ![b.ep + down] = Empty]
                 ELSE lifted
    IN [taken EXCEPT ![m.to] = piece_symbol(type, b.turn)]

\* the en passant square Board.push(move) sets
EpAfter(b, m) ==
    IF piece_type(b.pieces[m.from]) # "P" THEN NoSquare
    ELSE IF m.to - m.from = 16 /\ square_rank(m.from) = 1 THEN m.from + 8
    ELSE IF m.to - m.from = 0 - 16 /\ square_rank(m.from) = 6 THEN m.from - 8
    ELSE NoSquare

\* Board.push(move)
Push(b, m) ==
    LET saved == BoardState(b)
        full == b.fullmove + (IF b.turn THEN 0 ELSE 1)
    IN IF ~MoveBool(m)
       THEN [b EXCEPT !.move_stack = Append(@, m), !.stack = Append(@, saved),
                      !.ep = NoSquare, !.halfmove = @ + 1, !.fullmove = full,
                      !.turn = ~@]
       ELSE [pieces |-> PiecesAfter(b, m),
             turn |-> ~b.turn,
             castling |-> b.castling \ {m.from, m.to},
             ep |-> EpAfter(b, m),
             halfmove |-> IF is_zeroing(b, m) THEN 0 ELSE b.halfmove + 1,
             fullmove |-> full,
             move_stack |-> Append(b.move_stack, m),
             stack |-> Append(b.stack, saved)]

\* Board.pop(): the board with the last saved state restored
Pop(b) ==
    LET n == Len(b.move_stack)
        s == b.stack[n]
    IN [pieces |-> s.pieces, turn |-> s.turn, castling |-> s.castling,
        ep |-> s.ep, halfmove |-> s.halfmove, fullmove |-> s.fullmove,
        move_stack |-> SubSeq(b.move_stack, 1, n - 1),
        stack |-> SubSeq(b.stack, 1, n - 1)]

\* Board.peek(): the move pop() returns
Peek(b) == b.move_stack[Len(b.move_stack)]

PawnTargets(b, s) ==
    LET dir == IF b.turn THEN 8 ELSE 0 - 8
        home == IF b.turn THEN 1 ELSE 6
        one == s + dir
        two == s + 2 * dir
        pushes ==
            IF one \in SQUARES /\ b.pieces[one] = Empty
            THEN {one} \cup (IF square_rank(s) = home /\ b.pieces[two] = Empty
                             THEN {two} ELSE {})
            ELSE {}
        takes ==
            {t \in BB_PAWN_ATTACKS[b.turn][s] :
                \/ b.pieces[t] \in PiecesOf(~b.turn)
                \/ t = b.ep /\ b.pieces[t] = Empty}
    IN {t \in pushes \cup takes : square_rank(t) \notin {0, 7}}

KnightTargets(b, s) ==
    {t \in BB_KNIGHT_ATTACKS[s] : b.pieces[t] \notin PiecesOf(b.turn)}

\* Board.pseudo_legal_moves over the fragment's movers
pseudo_legal_moves(b) ==
    UNION {
        IF b.pieces[s] = piece_symbol("P", b.turn)
        THEN {Move(s, t) : t \in PawnTargets(b, s)}
        ELSE IF b.pieces[s] = piece_symbol("N", b.turn)
        THEN {Move(s, t) : t \in KnightTargets(b, s)}
        ELSE {}
      : s \in SQUARES}

\* Board._is_safe: the king of `colour` is not attacked in the placement
KingSafe(pieces, colour) == ~is_attacked_by(pieces, ~colour, king(pieces, colour))

\* Board._is_safe(king, blockers, move): the move leaves the king, found
\* once for the position, unattacked (no move of the fragment moves a king)
IsSafe(b, k, m) == ~is_attacked_by(PiecesAfter(b, m), ~b.turn, k)

LegalWithKing(b, k) == {m \in pseudo_legal_moves(b) : IsSafe(b, k, m)}

\* Board.legal_moves: pseudo-legal moves that leave the mover's king unattacked
legal_moves(b) == LegalWithKing(b, king(b.pieces, b.turn))

\* Board.is_check(), Board.is_checkmate()
is_check(b) == ~KingSafe(b.pieces, b.turn)
is_checkmate(b) == is_check(b) /\ legal_moves(b) = {}

-----------------------------------------------------------------------------
(* Notation: Board.san, Board.parse_san, Move.from_uci                      *)
(* A call that can raise yields [ok |-> FALSE, ...].                        *)

\* the origin squares that make a piece move ambiguous: other pieces of the
\* same type and colour with a legal move to the same square
SanOthers(b, m) ==
    {c.from : c \in {l \in legal_moves(b) :
                        /\ l.to = m.to
                        /\ l.from # m.from
                        /\ b.pieces[l.from] =
                             piece_symbol(piece_type(b.pieces[m.from]), b.turn)}}

\* Board._algebraic_without_suffix for a move with a piece on its origin
SanWithoutSuffix(b, m) ==
    LET type == piece_type(b.pieces[m.from])
        capture == is_capture(b, m)
        others == SanOthers(b, m)
        row == \E o \in others : square_file(o) = square_file(m.from)
        column == (\E o \in others : square_rank(o) = square_rank(m.from)) \/ ~row
        fromFile == <<FILE_NAMES[square_file(m.from) + 1]>>
        fromRank == <<RANK_NAMES[square_rank(m.from) + 1]>>
        head ==
            IF type = "P" THEN (IF capture THEN fromFile ELSE <<>>)
            ELSE <<type>>
                 \o (IF others # {} /\ column THEN fromFile ELSE <<>>)
                 \o (IF others # {} /\ row THEN fromRank ELSE <<>>)
    IN head \o (IF capture THEN <<"x">> ELSE <<>>) \o SQUARE_NAME(m.to)

\* the check or mate suffix of a position
SuffixOf(after) ==
    IF is_checkmate(after) THEN <<"#">>
    ELSE IF is_check(after) THEN <<"+">>
    ELSE <<>>

\* Board._algebraic_and_push: the suffix of the position after the move
SanSuffix(b, m) == SuffixOf(Push(b, m))

\* Board.san(move): raises on None and on a move from an empty square
San(b, m) ==
    IF m = NoneMove THEN [ok |-> FALSE, text |-> <<>>]
    ELSE IF ~MoveBool(m) THEN [ok |-> TRUE, text |-> <<"-", "-">> \o SanSuffix(b, m)]
    ELSE IF b.pieces[m.from] = Empty THEN [ok |-> FALSE, text |-> <<>>]
    ELSE [ok |-> TRUE, text |-> SanWithoutSuffix(b, m) \o SanSuffix(b, m)]

B2N(x) == IF x THEN 1 ELSE 0

\* SAN_REGEX: [piece][file][rank][-x]<file><rank>[+#]; a shape says which
\* optional groups are present
SanShapes == [p : BOOLEAN, f : BOOLEAN, r : BOOLEAN, x : BOOLEAN, c : BOOLEAN]

SanShapeMatches(s, g) ==
    LET i_f == 1 + B2N(g.p)
        i_r == i_f + B2N(g.f)
        i_x == i_r + B2N(g.r)
        i_d == i_x + B2N(g.x)
    IN /\ Len(s) = i_d + 1 + B2N(g.c)
       /\ g.p => s[1] \in PieceChars
       /\ g.f => s[i_f] \in FileChars
       /\ g.r => s[i_r] \in RankChars
       /\ g.x => s[i_x] \in {"-", "x"}
       /\ s[i_d] \in FileChars
       /\ s[i_d + 1] \in RankChars
       /\ g.c => s[i_d + 2] \in {"+", "#"}

SanMatch(s) == {g \in SanShapes : SanShapeMatches(s, g)}

NullSans == {<<"-", "-">>, <<"Z", "0">>, <<"0", "0", "0", "0">>, <<"@", "@", "@", "@">>}

\* Board.parse_san(san): the one legal move the notation names, a null move
\* for the null notations, else raises
parse_san(b, s) ==
    LET raise == [ok |-> FALSE, move |-> NoneMove]
    IN IF SanMatch(s) = {}
       THEN IF s \in NullSans THEN [ok |-> TRUE, move |-> NullMove] ELSE raise
       ELSE
        LET g == CHOOSE x \in SanMatch(s) : TRUE
            i_f == 1 + B2N(g.p)
            i_r == i_f + B2N(g.f)
            i_d == i_r + B2N(g.r) + B2N(g.x)
            to_square == square(IndexOf(FILE_NAMES, s[i_d]) - 1,
                                IndexOf(RANK_NAMES, s[i_d + 1]) - 1)
            fileOk(sq) == g.f => square_file(sq) = IndexOf(FILE_NAMES, s[i_f]) - 1
            rankOk(sq) == g.r => square_rank(sq) = IndexOf(RANK_NAMES, s[i_r]) - 1
            from_mask ==
                IF g.p
                THEN {sq \in SQUARES : /\ b.pieces[sq] = piece_symbol(s[1], b.turn)
                                       /\ fileOk(sq) /\ rankOk(sq)}
                ELSE IF g.f /\ g.r
                THEN {sq \in SQUARES : fileOk(sq) /\ rankOk(sq)}
                ELSE {sq \in SQUARES :
                        /\ piece_type(b.pieces[sq]) = "P"
                        /\ fileOk(sq) /\ rankOk(sq)
                        /\ ~g.f => square_file(sq) = square_file(to_square)}
            matched == {m \in legal_moves(b) :
                            /\ m.from \in from_mask
                            /\ m.to = to_square
                            /\ b.pieces[to_square] \notin PiecesOf(b.turn)}
        IN IF Cardinality(matched) = 1
           THEN [ok |-> TRUE, move |-> CHOOSE m \in matched : TRUE]
           ELSE raise

\* Move.from_uci(uci) for a four-character string
from_uci(s) ==
    IF s = <<"0", "0", "0", "0">> THEN [ok |-> TRUE, move |-> NullMove]
    ELSE IF /\ s[1] \in FileChars /\ s[2] \in RankChars
            /\ s[3] \in FileChars /\ s[4] \in RankChars
            /\ <<s[1], s[2]>> # <<s[3], s[4]>>
    THEN [ok |-> TRUE,
          move |-> Move(square(IndexOf(FILE_NAMES, s[1]) - 1, IndexOf(RANK_NAMES, s[2]) - 1),
                        square(IndexOf(FILE_NAMES, s[3]) - 1, IndexOf(RANK_NAMES, s[4]) - 1))]
    ELSE [ok |-> FALSE, move |-> NoneMove]

-----------------------------------------------------------------------------
(* Inputs                                                                  *)

\* what recognizer.recognize_google can return for an utterance
Heard ==
    {<<"e", "4">>, <<"E", "5">>, <<"N", " ", "f", "3">>,
     <<"U", "n", "d", "o">>, <<"R", "e", " ", "d", "o">>,
     <<"P", "l", "a", "y", " ", "b", "e", "s", "t", " ", "m", "o", "v", "e">>,
     <<"g", "1", "f", "3">>, <<"-", "-">>, <<" ">>,
     <<"a", "d", "v", "i", "s", "e">>}

\* recognize_speech without .lower()
recognize_speech_NoLower(text) == text

\* recognize_speech() when the recognizer returned `text`
recognize_speech(text) == StrLower(text)

\* what recognize_speech can return
RawTokens == {recognize_speech(text) : text \in Heard}

\* what engine.play can answer as result.move: e2e4, e7e5, the impossible
\* pawn move d2e4, a move from the empty square e3, and None
AdvisorMoves ==
    {Move(12, 28), Move(52, 36), Move(11, 28), Move(20, 28), NoneMove}

\* os.path.exists("stockfish.exe") / os.path.exists("stockfish")
Engines == {"None", "stockfish"}

-----------------------------------------------------------------------------
(* The program's functions                                                 *)

ControlWords ==
    {<<"u", "n", "d", "o">>, <<"r", "e", "d", "o">>,
     <<"p", "l", "a", "y", "b", "e", "s", "t", "m", "o", "v", "e">>}

\* parse_command without `if len(cmd) == 2: return cmd`
parse_command_NoTwoCharRule(cmd) ==
    LET c == RemoveSpaces(cmd)
    IN IF c \in ControlWords THEN [raised |-> FALSE, value |-> c]
       ELSE IF c = <<>> THEN [raised |-> TRUE, value |-> <<>>]
       ELSE [raised |-> FALSE, value |-> <<Upper(c[1])>> \o Tail(c)]

\* parse_command(cmd) for a non-empty cmd; raised = IndexError on cmd[0]
parse_command(cmd) ==
    LET c == RemoveSpaces(cmd)
    IN IF c \in ControlWords THEN [raised |-> FALSE, value |-> c]
       ELSE IF Len(c) = 2 THEN [raised |-> FALSE, value |-> c]
       ELSE IF c = <<>> THEN [raised |-> TRUE, value |-> <<>>]
       ELSE [raised |-> FALSE, value |-> <<Upper(c[1])>> \o Tail(c)]

\* main(): cmd = recognize_speech(), then cmd = parse_command(cmd), for each
\* text the recognizer can return
Commands == [text \in Heard |-> parse_command(recognize_speech(text))]

\* make_move(move_str) up to the call of save_pgn: the move it resolves.
\* raised = Move.from_uci raised into the outer except
ResolveParsed(p, move_str) ==
    LET move == IF p.ok THEN p.move ELSE NoneMove
    IN IF move = NoneMove /\ Len(move_str) = 4
       THEN [raised |-> ~from_uci(move_str).ok, move |-> from_uci(move_str).move]
       ELSE [raised |-> FALSE, move |-> move]

ResolveMove(b, move_str) == ResolveParsed(parse_san(b, move_str), move_str)

\* make_move without redo_stack.clear()
MakeResolved_KeepRedo(b, hist, redo, r) ==
    IF ~r.raised /\ MoveBool(r.move) /\ r.move \in legal_moves(b)
    THEN [outcome |-> "applied", board |-> Push(b, r.move),
          move_history |-> Append(hist, San(b, r.move).text),
          redo_stack |-> redo, pushed |-> r.move]
    ELSE [outcome |-> IF r.raised THEN "error" ELSE "illegal", board |-> b,
          move_history |-> hist, redo_stack |-> redo, pushed |-> NoneMove]

\* make_move with redo_stack.clear() ahead of the legality test
MakeResolved_ClearFirst(b, hist, redo, r) ==
    IF ~r.raised /\ MoveBool(r.move) /\ r.move \in legal_moves(b)
    THEN [outcome |-> "applied", board |-> Push(b, r.move),
          move_history |-> Append(hist, San(b, r.move).text),
          redo_stack |-> <<>>, pushed |-> r.move]
    ELSE [outcome |-> IF r.raised THEN "error" ELSE "illegal", board |-> b,
          move_history |-> hist, redo_stack |-> <<>>, pushed |-> NoneMove]

\* make_move with board.san(move) taken after board.push(move)
MakeResolved_SanAfterPush(b, hist, redo, r) ==
    IF ~r.raised /\ MoveBool(r.move) /\ r.move \in legal_moves(b)
    THEN [outcome |-> "applied", board |-> Push(b, r.move),
          move_history |-> Append(hist, San(Push(b, r.move), r.move).text),
          redo_stack |-> <<>>, pushed |-> r.move]
    ELSE [outcome |-> IF r.raised THEN "error" ELSE "illegal", board |-> b,
          move_history |-> hist, redo_stack |-> redo, pushed |-> NoneMove]

\* make_move(move_str) from the legality test on, for the resolved move r
MakeResolved(b, hist, redo, r) ==
       IF r.raised
       THEN [outcome |-> "error", board |-> b, move_history |-> hist,
             redo_stack |-> redo, pushed |-> NoneMove]
       ELSE IF MoveBool(r.move) /\ r.move \in legal_moves(b)
       THEN [outcome |-> "applied",
             board |-> Push(b, r.move),
             move_history |-> Append(hist, San(b, r.move).text),
             redo_stack |-> <<>>,
             pushed |-> r.move]
       ELSE [outcome |-> "illegal", board |-> b, move_history |-> hist,
             redo_stack |-> redo, pushed |-> NoneMove]

make_move(b, hist, redo, move_str) ==
    MakeResolved(b, hist, redo, ResolveMove(b, move_str))

\* undo_move without move_history.pop()
undo_move_NoHistoryPop(b, hist, redo) ==
    IF b.move_stack # <<>>
    THEN [board |-> Pop(b), move_history |-> hist,
          redo_stack |-> Append(redo, Peek(b))]
    ELSE [board |-> b, move_history |-> hist, redo_stack |-> redo]

\* undo_move()
undo_move(b, hist, redo) ==
    IF b.move_stack # <<>>
    THEN [board |-> Pop(b),
          move_history |-> SubSeq(hist, 1, Len(hist) - 1),
          redo_stack |-> Append(redo, Peek(b))]
    ELSE [board |-> b, move_history |-> hist, redo_stack |-> redo]

\* redo_move without move_history.append(san)
redo_move_NoAppend(b, hist, redo) ==
    IF redo # <<>>
    THEN [board |-> Push(b, redo[Len(redo)]), move_history |-> hist,
          redo_stack |-> SubSeq(redo, 1, Len(redo) - 1)]
    ELSE [board |-> b, move_history |-> hist, redo_stack |-> redo]

\* redo_move taking the oldest undone move, redo_stack.pop(0)
redo_move_Fifo(b, hist, redo) ==
    IF redo # <<>>
    THEN [board |-> Push(b, redo[1]),
          move_history |-> Append(hist, San(b, redo[1]).text),
          redo_stack |-> Tail(redo)]
    ELSE [board |-> b, move_history |-> hist, redo_stack |-> redo]

\* redo_move followed by redo_stack.clear(), as a commit does
redo_move_ClearRest(b, hist, redo) ==
    IF redo # <<>>
    THEN [board |-> Push(b, redo[Len(redo)]),
          move_history |-> Append(hist, San(b, redo[Len(redo)]).text),
          redo_stack |-> <<>>]
    ELSE [board |-> b, move_history |-> hist, redo_stack |-> redo]

\* redo_move()
redo_move(b, hist, redo) ==
    IF redo # <<>>
    THEN LET move == redo[Len(redo)]
         IN [board |-> Push(b, move),
             move_history |-> Append(hist, San(b, move).text),
             redo_stack |-> SubSeq(redo, 1, Len(redo) - 1)]
    ELSE [board |-> b, move_history |-> hist, redo_stack |-> redo]

\* the movetext print(game) writes: the notation of board.move_stack replayed
\* from the starting position
RECURSIVE PgnMoves(_, _)
PgnMoves(b, ms) ==
    IF ms = <<>> THEN <<>>
    ELSE <<San(b, Head(ms)).text>> \o PgnMoves(Push(b, Head(ms)), Tail(ms))

\* game_log.pgn: absent, empty (opened with "w") or complete
NoFile == [kind |-> "absent", moves |-> <<>>]
EmptyFile == [kind |-> "empty", moves |-> <<>>]
CompleteFile(ms) == [kind |-> "complete", moves |-> PgnMoves(NewBoard, ms)]

-----------------------------------------------------------------------------
(* History variables                                                       *)

Core == [board |-> board, move_history |-> move_history, redo_stack |-> redo_stack]
Snapshot == [board |-> board, move_history |-> move_history,
             redo_stack |-> redo_stack, file |-> file]

Core0 == [board |-> NewBoard, move_history |-> <<>>, redo_stack |-> <<>>]
Snapshot0 == [board |-> NewBoard, move_history |-> <<>>, redo_stack |-> <<>>,
              file |-> NoFile]

\* chain.phase: "undo" while undos follow each other, "redo" while redos
\* follow those undos, "committed" from the commit of a new move until the
\* next undo (cleared = the redo entries that commit dropped), else "none"
NoChain == [phase |-> "none", undos |-> 0, redos |-> 0, cleared |-> 0, snap |-> Core0]
CommittedChain(n) == [NoChain EXCEPT !.phase = "committed", !.cleared = n]

\* a command that changes nothing leaves "committed" standing and ends a run
\* of undos and redos
Settled == IF chain.phase = "committed" THEN chain ELSE NoChain

\* the record of a command: what it was, the state before it, for a move
\* text of four characters that pushed nothing (the texts make_move also tries
\* as UCI) how many times in a row it has been given (counted up to two), the
\* move it pushed, what save_pgn did, what the engine answered
Record(op, arg, pushed, save, advice) ==
    LET same == last.op = op /\ last.arg = arg
    IN [op |-> op, arg |-> arg, pre |-> Snapshot,
        reps |-> IF op = "move" /\ pushed = NoneMove /\ Len(arg) = 4 /\ same
                 THEN (IF last.reps < 2 THEN last.reps + 1 ELSE 2)
                 ELSE 1,
        pushed |-> pushed, save |-> save, advice |-> advice]

-----------------------------------------------------------------------------
(* main()                                                                  *)

Init ==
    /\ board = NewBoard
    /\ move_history = <<>>
    /\ redo_stack = <<>>
    /\ engine \in Engines
    /\ file = NoFile
    /\ pc = "frame"
    /\ running = TRUE
    /\ quit_calls = 0
    /\ heard = <<>>
    /\ last = [op |-> "none", arg |-> <<>>, pre |-> Snapshot0, reps |-> 0, pushed |-> NoneMove, save |-> "none", advice |-> NoneMove]
    /\ chain = NoChain

\* the three globals take the values a function left them with
Assign(r) ==
    /\ board' = r.board
    /\ move_history' = r.move_history
    /\ redo_stack' = r.redo_stack

\* where the loop goes after the command of this iteration
AfterTurn == IF running THEN "frame" ELSE "exit"

\* the top of an iteration: the events (QUIT clears running) and the drawing;
\* draw_status changes no state, with or without an engine, and whatever
\* engine.analyse or board.san raises ends in its bare except.  The analysis
\* is limited by depth only, so SimpleEngine waits for it without a timeout:
\* an engine that stops answering keeps main() inside engine.analyse
Frame ==
    /\ pc = "frame"
    /\ \E quit \in BOOLEAN : running' = (running /\ ~quit)
    /\ \E stalls \in (IF engine = "None" THEN {FALSE} ELSE BOOLEAN) :
            pc' = IF stalls THEN "analysing" ELSE "listen"
    /\ UNCHANGED <<board, move_history, redo_stack, engine, file, quit_calls,
                   heard, last, chain>>

\* recognize_speech() returned None, or the empty string: `if cmd` is false
\* and there is no command this iteration
Silence ==
    /\ pc = "listen"
    /\ pc' = AfterTurn
    /\ UNCHANGED <<board, move_history, redo_stack, engine, file, running,
                   quit_calls, heard, last, chain>>

\* parse_command raises IndexError on a token of spaces; main() has no handler
CmdCrash ==
    /\ pc = "listen"
    /\ \E text \in Heard :
        /\ Commands[text].raised
        /\ heard' = text
        /\ last' = Record("crash", recognize_speech(text), NoneMove, "none", NoneMove)
    /\ pc' = "crashed"
    /\ chain' = NoChain
    /\ UNCHANGED <<board, move_history, redo_stack, engine, file, running,
                   quit_calls>>

\* undo_move without its test of board.move_stack: pop() raises on the empty
\* stack and ends the loop
CmdUndo_NoGuard ==
    /\ pc = "listen"
    /\ \E text \in Heard :
        /\ ~Commands[text].raised
        /\ Commands[text].value = <<"u", "n", "d", "o">>
        /\ heard' = text
    /\ Assign(undo_move(board, move_history, redo_stack))
    /\ last' = Record("undo", <<>>, NoneMove, "none", NoneMove)
    /\ chain' = NoChain
    /\ pc' = IF board.move_stack = <<>> THEN "crashed" ELSE AfterTurn
    /\ UNCHANGED <<engine, file, running, quit_calls>>

\* undo_move followed by save_pgn(), as a commit does
CmdUndo_Saves ==
    /\ pc = "listen"
    /\ \E text \in Heard :
        /\ ~Commands[text].raised
        /\ Commands[text].value = <<"u", "n", "d", "o">>
        /\ heard' = text
    /\ Assign(undo_move(board, move_history, redo_stack))
    /\ file' = CompleteFile(undo_move(board, move_history, redo_stack).board.move_stack)
    /\ last' = Record("undo", <<>>, NoneMove, "none", NoneMove)
    /\ chain' = IF board.move_stack = <<>> THEN Settled
                ELSE IF chain.phase = "undo" THEN [chain EXCEPT !.undos = @ + 1]
                ELSE [NoChain EXCEPT !.phase = "undo", !.undos = 1, !.snap = Core]
    /\ pc' = AfterTurn
    /\ UNCHANGED <<engine, running, quit_calls>>

\* cmd == "undo"
CmdUndo ==
    /\ pc = "listen"
    /\ \E text \in Heard :
        /\ ~Commands[text].raised
        /\ Commands[text].value = <<"u", "n", "d", "o">>
        /\ heard' = text
    /\ Assign(undo_move(board, move_history, redo_stack))
    /\ last' = Record("undo", <<>>, NoneMove, "none", NoneMove)
    /\ chain' = IF board.move_stack = <<>> THEN Settled
                ELSE IF chain.phase = "undo" THEN [chain EXCEPT !.undos = @ + 1]
                ELSE [NoChain EXCEPT !.phase = "undo", !.undos = 1, !.snap = Core]
    /\ pc' = AfterTurn
    /\ UNCHANGED <<engine, file, running, quit_calls>>

\* cmd == "redo"
CmdRedo ==
    /\ pc = "listen"
    /\ \E text \in Heard :
        /\ ~Commands[text].raised
        /\ Commands[text].value = <<"r", "e", "d", "o">>
        /\ heard' = text
    /\ Assign(redo_move(board, move_history, redo_stack))
    /\ last' = Record("redo", <<>>,
                      IF redo_stack # <<>> THEN redo_stack[Len(redo_stack)]
                      ELSE NoneMove,
                      "none", NoneMove)
    /\ chain' = IF /\ redo_stack # <<>>
                   /\ chain.phase \in {"undo", "redo"}
                   /\ chain.redos < chain.undos
                THEN [chain EXCEPT !.phase = "redo", !.redos = @ + 1]
                ELSE Settled
    /\ pc' = AfterTurn
    /\ UNCHANGED <<engine, file, running, quit_calls>>

\* make_move without its outer try: a failing open() ends the loop
Committed_Uncaught(op, move_str, advice, r, disk) ==
       /\ Assign(r)
       /\ chain' = IF r.outcome = "applied" THEN CommittedChain(Len(redo_stack))
                   ELSE Settled
       /\ IF r.outcome = "applied"
          THEN \E opened \in disk :
                /\ file' = IF opened THEN EmptyFile ELSE file
                /\ pc' = IF opened THEN "saving" ELSE "crashed"
                /\ last' = Record(op, move_str, r.pushed,
                                  IF opened THEN "opened" ELSE "open_failed", advice)
          ELSE /\ file' = file
               /\ pc' = AfterTurn
               /\ last' = Record(op, move_str, r.pushed, "none", advice)

\* make_move(move_str) as main() or play_best() calls it, up to save_pgn's
\* open(): an applied move goes on to open game_log.pgn for writing, which
\* either raises into make_move's except or leaves the file empty.  `disk` is
\* the set of outcomes the file system allows (TRUE = the call succeeds)
Committed(op, move_str, advice, r, disk) ==
       /\ Assign(r)
       /\ chain' = IF r.outcome = "applied" THEN CommittedChain(Len(redo_stack))
                   ELSE Settled
       /\ IF r.outcome = "applied"
          THEN \E opened \in disk :
                IF opened
                THEN /\ file' = EmptyFile
                     /\ pc' = "saving"
                     /\ last' = Record(op, move_str, r.pushed, "opened", advice)
                ELSE /\ file' = file
                     /\ pc' = AfterTurn
                     /\ last' = Record(op, move_str, r.pushed, "open_failed", advice)
          ELSE /\ file' = file
               /\ pc' = AfterTurn
               /\ last' = Record(op, move_str, r.pushed, "none", advice)

Commit(op, move_str, advice, disk) ==
    Committed(op, move_str, advice,
              make_move(board, move_history, redo_stack, move_str), disk)

\* any other cmd: make_move(cmd)
CmdMove(disk) ==
    /\ pc = "listen"
    /\ Len(board.move_stack) < MaxPly
    /\ \E text \in Heard :
        /\ ~Commands[text].raised
        /\ Commands[text].value \notin ControlWords
        /\ heard' = text
        /\ Commit("move", Commands[text].value, NoneMove, disk)
    /\ UNCHANGED <<engine, running, quit_calls>>

\* play_best() with an engine: engine.play answered with `move` or raised,
\* san is board.san(result.move)
PlayAnswer(answered, move, san, disk) ==
    IF answered /\ san.ok
    THEN Commit("playbest", san.text, move, disk)
    ELSE /\ last' = Record("playbest", <<>>, NoneMove, "none", move)
         /\ chain' = NoChain
         /\ pc' = "crashed"
         /\ UNCHANGED <<board, move_history, redo_stack, file>>

\* play_best without its test of engine: None.play raises and ends the loop
CmdPlayBest_NoGuard(disk) ==
    /\ pc = "listen"
    /\ Len(board.move_stack) < MaxPly
    /\ \E text \in Heard :
        /\ ~Commands[text].raised
        /\ Commands[text].value =
             <<"p", "l", "a", "y", "b", "e", "s", "t", "m", "o", "v", "e">>
        /\ heard' = text
    /\ \E answered \in BOOLEAN, move \in AdvisorMoves :
            PlayAnswer(answered /\ engine # "None", move, San(board, move), disk)
    /\ UNCHANGED <<engine, running, quit_calls>>

\* cmd == "playbestmove": play_best(); engine.play or board.san may raise, and
\* nothing between there and asyncio.run catches it
CmdPlayBest(disk) ==
    /\ pc = "listen"
    /\ Len(board.move_stack) < MaxPly
    /\ \E text \in Heard :
        /\ ~Commands[text].raised
        /\ Commands[text].value =
             <<"p", "l", "a", "y", "b", "e", "s", "t", "m", "o", "v", "e">>
        /\ heard' = text
    /\ IF engine = "None"
       THEN /\ last' = Record("playbest", <<>>, NoneMove, "none", NoneMove)
            /\ chain' = Settled
            /\ pc' = AfterTurn
            /\ UNCHANGED <<board, move_history, redo_stack, file>>
       ELSE \E answered \in BOOLEAN, move \in AdvisorMoves :
                PlayAnswer(answered, move, San(board, move), disk)
    /\ UNCHANGED <<engine, running, quit_calls>>

\* save_pgn(): print(game, file=f) and the close of the file, which flushes
\* the buffered text; a failure raises into make_move's except and leaves the
\* file as open() left it
SavePgnWrite(disk) ==
    /\ pc = "saving"
    /\ \E written \in disk :
        /\ file' = IF written THEN CompleteFile(board.move_stack) ELSE EmptyFile
        /\ last' = [last EXCEPT !.save = IF written THEN "written"
                                          ELSE "write_failed"]
    /\ pc' = AfterTurn
    /\ UNCHANGED <<board, move_history, redo_stack, engine, running,
                   quit_calls, heard, chain>>

\* after the loop: engine.quit() if there is an engine, pygame.quit()
Shutdown ==
    /\ pc = "exit"
    /\ quit_calls' = IF engine # "None" THEN quit_calls + 1 ELSE quit_calls
    /\ pc' = "done"
    /\ UNCHANGED <<board, move_history, redo_stack, engine, file, running,
                   heard, last, chain>>

Next ==
    \/ Frame
    \/ Silence
    \/ CmdCrash
    \/ CmdUndo
    \/ CmdRedo
    \/ CmdMove(BOOLEAN)
    \/ CmdPlayBest(BOOLEAN)
    \/ SavePgnWrite(BOOLEAN)
    \/ Shutdown

Spec == Init /\ [][Next]_vars

\* the same program on a disk where open() and the write never fail
NextDiskOk ==
    \/ Frame
    \/ Silence
    \/ CmdCrash
    \/ CmdUndo
    \/ CmdRedo
    \/ CmdMove({TRUE})
    \/ CmdPlayBest({TRUE})
    \/ SavePgnWrite({TRUE})
    \/ Shutdown

SpecDiskOk == Init /\ [][NextDiskOk]_vars

\* the program with its steps taken as long as one is possible: main() runs
\* on, and stops only where it has ended or waits for something outside it
SpecLive == Init /\ [][Next]_vars /\ WF_vars(Next)

-----------------------------------------------------------------------------
(* Properties                                                              *)

Front(s) == SubSeq(s, 1, Len(s) - 1)

\* the board reached by pushing the moves in turn from the starting position
RECURSIVE Replay(_, _)
Replay(b, ms) == IF ms = <<>> THEN b ELSE Replay(Push(b, Head(ms)), Tail(ms))

\* the resolved move r is none that make_move applies in the position
RejectedAs(b, r) ==
    \/ r.raised
    \/ ~MoveBool(r.move)
    \/ r.move \notin legal_moves(b)

\* the token names no legal move of the position: it parses to nothing, to a
\* null or illegal move, or its parsing raises
Rejected(b, move_str) == RejectedAs(b, ResolveMove(b, move_str))

\* the loop has not been left through an exception
LoopAlive == pc # "crashed"

\* C1: after N undos followed by N redos the board (placement, side to move,
\* rights, clocks, move stack), move_history and redo_stack are exactly what
\* they were before the first of the undos.
C1_UndoRedoRoundTrip ==
    (chain.phase = "redo" /\ chain.redos = chain.undos) => Core = chain.snap

\* two moves undone and redone
C1_Witness ==
    /\ chain.phase = "redo"
    /\ chain.undos = 2
    /\ chain.redos = 2
    /\ Len(board.move_stack) = 2

\* C2: the commit of a new move, by make_move or through play_best, leaves
\* redo_stack empty whatever it held, and from then until the next undo
\* redo_stack stays empty and a redo changes neither board nor histories.
C2_CommitClearsRedo ==
    chain.phase = "committed" =>
        /\ redo_stack = <<>>
        /\ last.op = "redo" =>
            /\ board = last.pre.board
            /\ move_history = last.pre.move_history
            /\ redo_stack = last.pre.redo_stack

\* a redo given after a commit that dropped a pending redo entry
C2_Witness ==
    /\ chain.phase = "committed"
    /\ chain.cleared > 0
    /\ last.op = "redo"

\* C3: a move command whose token names no legal move leaves board,
\* move_history, redo_stack and game_log.pgn as they were, the first time and
\* when the same token is given again.
C3_RejectedMoveChangesNothing ==
    (last.op = "move" /\ Rejected(last.pre.board, last.arg)) => Snapshot = last.pre

\* the token whose parsing raises, given twice in a row with a redo pending
\* and a transcript on disk
C3_Witness ==
    /\ last.op = "move"
    /\ last.arg = <<"G", "1", "f", "3">>
    /\ last.reps = 2
    /\ redo_stack # <<>>
    /\ file.kind = "complete"

\* C4: every move on the board's move stack was a legal move of the position
\* it was pushed in, and the move a command (new move, redo or play_best)
\* pushes is legal in the position the command started from; so an engine
\* answer that is not legal is never the move pushed.
C4_PushedMovesAreLegal ==
    /\ \A i \in 1..Len(board.move_stack) :
            board.move_stack[i] \in legal_moves(board.stack[i])
    /\ last.pushed # NoneMove => last.pushed \in legal_moves(last.pre.board)

\* a redo has pushed an undone move back as the second move of the game
C4_Witness ==
    /\ last.op = "redo"
    /\ last.pushed # NoneMove
    /\ Len(board.move_stack) = 2

\* C5: undo with no move applied and redo with nothing undone change nothing
\* and do not end the loop.
C5_EmptyUndoRedoAreNoOps ==
    /\ (last.op = "undo" /\ last.pre.board.move_stack = <<>>)
            => (Snapshot = last.pre /\ LoopAlive)
    /\ (last.op = "redo" /\ last.pre.redo_stack = <<>>)
            => (Snapshot = last.pre /\ LoopAlive)

\* an undo at the starting position while undone moves are pending
C5_Witness ==
    /\ last.op = "undo"
    /\ last.pre.board.move_stack = <<>>
    /\ redo_stack # <<>>
    /\ pc = "listen"

\* C6: an undo with a move applied takes back exactly the last move: the move
\* stack and move_history lose their last element, the board is the position
\* the earlier moves lead to, and the move taken back is on top of redo_stack.
C6_UndoReversesLastMove ==
    (last.op = "undo" /\ last.pre.board.move_stack # <<>>) =>
        /\ board.move_stack = Front(last.pre.board.move_stack)
        /\ move_history = Front(last.pre.move_history)
        /\ board = Replay(NewBoard, Front(last.pre.board.move_stack))
        /\ redo_stack = Append(last.pre.redo_stack, Peek(last.pre.board))

\* e4, e5, undo: the black pawn is back on e7, the white pawn stays on e4
C6_Witness ==
    /\ last.op = "undo"
    /\ last.pre.move_history = <<(<<"e", "4">>), (<<"e", "5">>)>>
    /\ move_history = <<(<<"e", "4">>)>>
    /\ board.pieces[28] = "P"
    /\ board.pieces[12] = Empty
    /\ board.pieces[52] = "p"
    /\ board.pieces[36] = Empty

\* C7: after every successful apply (new move, engine move or redo) the
\* command has written the transcript, and game_log.pgn lists exactly the
\* moves of move_history.
C7_EveryApplyWritesTranscript ==
    (last.pushed # NoneMove /\ pc # "saving") =>
        (file.kind = "complete" /\ file.moves = move_history)

\* C8: once game_log.pgn holds a complete record, every step of the program,
\* the steps inside save_pgn included, leaves a complete record in it.
C8_TranscriptNeverTruncated ==
    [][file.kind = "complete" => file'.kind = "complete"]_vars

\* C9: when save_pgn fails during a commit the pushed move stays on the board,
\* its notation stays at the end of move_history, redo_stack stays empty, and
\* the loop goes on to the next frame (whose analysis is the engine's matter)
\* and command.
C9_WriteFailureKeepsMove ==
    last.save \in {"open_failed", "write_failed"} =>
        /\ board = Push(last.pre.board, last.pushed)
        /\ move_history = Append(last.pre.move_history,
                                 San(last.pre.board, last.pushed).text)
        /\ redo_stack = <<>>
        /\ LoopAlive
        /\ running => pc \in {"frame", "listen", "analysing"}

\* the write failed on a commit that dropped a pending redo, and the loop is
\* listening again
C9_Witness ==
    /\ last.save = "write_failed"
    /\ last.pre.redo_stack # <<>>
    /\ pc = "listen"

\* the state part of C10: what the last command left behind when there is no
\* engine
NoEngineState ==
    engine = "None" =>
        /\ last.op = "playbest" =>
            /\ Snapshot = last.pre
            /\ LoopAlive
            /\ running => pc \in {"frame", "listen"}
        /\ (last.op = "move" /\ ~Rejected(last.pre.board, last.arg)) =>
            /\ last.pushed = ResolveMove(last.pre.board, last.arg).move
            /\ board = Push(last.pre.board, last.pushed)

\* the step part of C10: a frame drawn when there is no engine
NoEngineFrame ==
    (engine = "None" /\ pc = "frame") =>
        /\ UNCHANGED <<board, move_history, redo_stack, file>>
        /\ pc' \in {"frame", "listen"}

\* C10: without an engine, play_best changes nothing and does not end the
\* loop, a frame's draw_status changes nothing and hands over to listening,
\* and a manual move that names a legal move is still applied.
C10_NoEngineIsHarmless == [](NoEngineState) /\ [][NoEngineFrame]_vars

\* no engine: the advise command was given, the next frame was drawn and the
\* loop listens again; the game so far was played by manual moves
C10_Witness ==
    /\ engine = "None"
    /\ last.op = "playbest"
    /\ pc = "listen"
    /\ Len(board.move_stack) = 1

\* C11: a best-move query that fails (engine.play raises, or answers with no
\* move or a move python-chess cannot write down) leaves board, histories and
\* transcript as they were and does not end the loop.
C11_AdvisorFailureIsContained ==
    (last.op = "playbest" /\ engine # "None" /\ last.pushed = NoneMove) =>
        (Snapshot = last.pre /\ LoopAlive)

\* C12: with an engine started, engine.quit() has been called exactly once
\* when main() has ended, by the loop's exit or by an exception, and not at
\* all before.
C12_EngineQuitExactlyOnce ==
    engine # "None" =>
        /\ pc \in {"done", "crashed"} => quit_calls = 1
        /\ pc \notin {"done", "crashed"} => quit_calls = 0

\* C13: no token ends the loop, in parse_command or in the dispatch, and a
\* token that is neither a control word nor a legal move changes nothing.
C13_NoTokenEndsTheLoop ==
    last.op \in {"crash", "move"} =>
        /\ LoopAlive
        /\ (last.op = "crash" \/ Rejected(last.pre.board, last.arg))
                => Snapshot = last.pre

\* the word a recognized text spells once case and spaces are set aside
Spelled(text) == RemoveSpaces(StrLower(text))

\* the command was handed to one of the four branches of the dispatch
Dispatched == last.op \in {"undo", "redo", "playbest", "move"}

IsReset(r) ==
    /\ r.board = NewBoard
    /\ r.move_history = <<>>
    /\ r.redo_stack = <<>>

\* some command of main's dispatch (undo, redo, a move text, an engine answer)
\* given in this state leaves the reset session behind
ResetByCommand ==
    \/ IsReset(undo_move(board, move_history, redo_stack))
    \/ IsReset(redo_move(board, move_history, redo_stack))
    \/ \E raw \in RawTokens :
            /\ ~parse_command(raw).raised
            /\ IsReset(make_move(board, move_history, redo_stack,
                                 parse_command(raw).value))
    \/ \E move \in AdvisorMoves :
            /\ San(board, move).ok
            /\ IsReset(make_move(board, move_history, redo_stack,
                                 San(board, move).text))

\* C15: wherever the loop awaits a command with a move applied, some command
\* resets the session in one step (board, both sequences; the transcript
\* would have to go with them).
C15_ResetIsAvailable ==
    (pc = "listen" /\ board.move_stack # <<>>) => ResetByCommand

\* what a redo with something to redo has done: the top entry is gone from
\* redo_stack, pushed on the board and written at the end of move_history
RedoReapplies ==
    (last.op = "redo" /\ last.pre.redo_stack # <<>>) =>
        /\ redo_stack = Front(last.pre.redo_stack)
        /\ board = Push(last.pre.board,
                        last.pre.redo_stack[Len(last.pre.redo_stack)])
        /\ move_history =
             Append(last.pre.move_history,
                    San(last.pre.board,
                        last.pre.redo_stack[Len(last.pre.redo_stack)]).text)

\* after n undos and k <= n redos: the first k undone moves are back in their
\* order, the other n - k wait in redo_stack, the next one to redo on top
RedoKeepsOrder ==
    chain.phase = "redo" =>
        /\ board.move_stack =
             SubSeq(chain.snap.board.move_stack, 1,
                    Len(chain.snap.board.move_stack) - chain.undos + chain.redos)
        /\ move_history =
             SubSeq(chain.snap.move_history, 1,
                    Len(chain.snap.move_history) - chain.undos + chain.redos)
        /\ Len(redo_stack) =
             Len(chain.snap.redo_stack) + chain.undos - chain.redos
        /\ \A i \in 1..Len(redo_stack) :
             redo_stack[i] =
                IF i <= Len(chain.snap.redo_stack)
                THEN chain.snap.redo_stack[i]
                ELSE chain.snap.board.move_stack[
                        Len(chain.snap.board.move_stack)
                        - (i - Len(chain.snap.redo_stack)) + 1]

\* a step that shortens redo_stack is a redo taking the top entry or the
\* commit of a new move emptying it
RedoShrinks ==
    Len(redo_stack') < Len(redo_stack) =>
        \/ last'.op = "redo" /\ redo_stack' = Front(redo_stack)
        \/ /\ last'.op \in {"move", "playbest"}
           /\ last'.pushed # NoneMove
           /\ redo_stack' = <<>>

\* C16: a redo takes only the most recently undone move off redo_stack,
\* re-applies it and appends it to move_history, leaving the other entries in
\* place; only the commit of a new move empties redo_stack; so k redos after
\* n undos bring back the first k undone moves in their original order.
C16_RedoTakesOnlyTheTop ==
    [](RedoReapplies /\ RedoKeepsOrder) /\ [][RedoShrinks]_vars

\* two undos, then one redo: one undone move is back, the other still waits
C16_Witness ==
    /\ chain.phase = "redo"
    /\ chain.undos = 2
    /\ chain.redos = 1
    /\ Len(redo_stack) = 1
    /\ Len(board.move_stack) = 1

\* C17: a frame drawn with an engine asks it for an analysis; whatever the
\* engine does, main() gets past the request and listens for the next command.
C17_AdvisorRequestsReturn ==
    (pc = "frame" /\ engine # "None") ~> (pc = "listen")

\* tokens of letters, digits and spaces up to MaxTokenLen characters
TokenChars == {"e", "x", "4", " ", "N"}
Tokens == UNION {[1..n -> TokenChars] : n \in 1..MaxTokenLen}

\* `out` is the space-free token c as the rule wants it: unmodified when it
\* has two characters, else with its first character upper-cased and the
\* others as they were
Normalized(c, out) ==
    IF Len(c) = 2 THEN out = c
    ELSE /\ Len(out) = Len(c)
         /\ out[1] = Upper(c[1])
         /\ \A i \in 2..Len(c) : out[i] = c[i]

\* the rule on every token of Tokens that is not made of spaces only
NormalizesTokens ==
    \A s \in Tokens :
        RemoveSpaces(s) # <<>> =>
            /\ ~parse_command(s).raised
            /\ Normalized(RemoveSpaces(s), parse_command(s).value)

\* C18: the text main() hands to make_move is the recognized token with its
\* spaces removed, unmodified if that leaves two characters, otherwise with
\* only the first character upper-cased; and parse_command does the same on
\* every short token.
C18_ParseCommandNormalizes ==
    /\ NormalizesTokens
    /\ last.op = "move" =>
           Normalized(RemoveSpaces(recognize_speech(heard)), last.arg)

\* "N f3" was heard, reached make_move as Nf3, was played as the first move
\* and written to the transcript
C18_Witness ==
    /\ last.op = "move"
    /\ heard = <<"N", " ", "f", "3">>
    /\ last.arg = <<"N", "f", "3">>
    /\ last.pushed # NoneMove
    /\ redo_stack = <<>>
    /\ file.moves = <<(<<"N", "f", "3">>)>>

\* C19: move_history is as long as the board's move stack, and its i-th entry
\* is the notation of the i-th move of the stack in the position the moves
\* before it lead to; after every command, failed ones included.
C19_HistoryMatchesMoveStack ==
    /\ Len(move_history) = Len(board.move_stack)
    /\ \A i \in 1..Len(board.move_stack) :
          move_history[i] =
             San(Replay(NewBoard, SubSeq(board.move_stack, 1, i - 1)),
                 board.move_stack[i]).text

\* the engine's move was applied as the second move and its transcript write
\* failed; the loop awaits the next command
C19_Witness ==
    /\ last.op = "playbest"
    /\ last.save = "write_failed"
    /\ Len(move_history) = 2
    /\ pc = "listen"

\* C20: an undo leaves game_log.pgn as it was; with a move to take back, the
\* file still holds the record of the last commit: the moves still applied,
\* then the move just undone, then the moves undone before it.
C20_UndoLeavesTranscript ==
    last.op = "undo" =>
        /\ file = last.pre.file
        /\ last.pre.board.move_stack # <<>> =>
            /\ file.kind = "complete"
            /\ Len(file.moves) = Len(move_history) + Len(redo_stack)
            /\ SubSeq(file.moves, 1, Len(last.pre.move_history))
                    = last.pre.move_history

\* e4 and e5 were written, e5 was undone, the next frame was drawn: the file
\* still lists both
C20_Witness ==
    /\ last.op = "undo"
    /\ move_history = <<(<<"e", "4">>)>>
    /\ file.moves = <<(<<"e", "4">>), (<<"e", "5">>)>>
    /\ pc = "listen"

====
